---- MODULE Spec2Model ----
(***************************************************************************)
(* lualscheck (src/src/main.rs): runs lua-language-server --check as a     *)
(* child process, drains and echoes its standard output on a second        *)
(* thread, reads the path of the diagnostics report from the last line of  *)
(* that output, loads the report and renders / counts its diagnostics.     *)
(*                                                                         *)
(* Modelling decisions:                                                    *)
(*  - a byte of the child's output is one of Bytes; "SP" is a space, "LF"  *)
(*    a line feed, "XX" a byte that is not valid UTF-8, "p" and "q" are    *)
(*    printable characters;                                                *)
(*  - a filesystem path is the sequence of its components;                 *)
(*  - the keys of the report are the sample URI strings of UriKeys, and    *)
(*    what the url crate does with each of them is tabulated;              *)
(*  - in the loops over the report a diagnostic is its severity (0 = the   *)
(*    field is absent); the text written for a diagnostic is modelled     *)
(*    apart (SpecRender), on diagnostics that are a range, a message and   *)
(*    their related information;                                           *)
(*  - writes to this process's standard output succeed.                    *)
(***************************************************************************)
EXTENDS Integers, Sequences, FiniteSets, TLC

VARIABLES
    optsFail,           \* opts.fail, a Severity
    optsShow,           \* opts.show, a Severity
    fail,               \* fail: DiagnosticSeverity (0 before line 99)
    show,               \* show: DiagnosticSeverity (0 before line 100)
    pc,                 \* position of the main thread
    outcome,            \* how main returned: [kind, info]
    childState,         \* "none" | "running" | "exited"
    exitStatus,         \* exit status of the child
    written,            \* every byte the child wrote to its stdout, in order
    pipe,               \* bytes in the pipe, written and not yet read
    drainPc,            \* position of the drain thread
    buffer,             \* &buffer[..n] of the last read, not yet echoed
    stdout_contents,    \* the drain thread's Vec<u8>
    drainResult,        \* value the drain closure returned
    echoed,             \* child bytes written to this process's stdout
    result,             \* Vec<u8> the join handed to the main thread
    stdout,             \* the String decoded from result
    path,               \* last_token, the report path
    fsChecked,          \* path.exists() was called
    fsRead,             \* read_to_string(path) was called
    diagnostics,        \* the BTreeMap, as its entries in key order
    entryIdx,           \* entry the outer loop is at
    diagIdx,            \* diagnostic the inner loop is at
    relative_path,      \* relative_path of the current entry
    found_diagnostics,  \* the failure counter
    rendered,           \* diagnostics written to stdout, in order
    counted,        \* diagnostics that incremented the counter
    remaining,          \* diagnostics the inner loop has still to write
    path_diagnostic,    \* the PathDiagnostic being written
    informationIdx,     \* position of the loop over related_information
    renderPc,           \* position of the write of a diagnostic
    formatter           \* the text written for diagnostics, piece by piece

vars == <<optsFail, optsShow, fail, show, pc, outcome, childState, exitStatus,
          written, pipe, drainPc, buffer, stdout_contents, drainResult, echoed,
          result, stdout, path, fsChecked, fsRead, diagnostics, entryIdx,
          diagIdx, relative_path, found_diagnostics, rendered, counted,
          remaining, path_diagnostic, informationIdx, renderPc, formatter>>

orchVars == <<childState, exitStatus, written, pipe, drainPc, buffer,
              stdout_contents, drainResult, echoed>>
optVars == <<optsFail, optsShow, fail, show>>
locateVars == <<result, stdout, path, fsChecked, fsRead>>
filterVars == <<diagnostics, entryIdx, diagIdx, relative_path,
                found_diagnostics, rendered, counted>>
renderVars == <<remaining, path_diagnostic, informationIdx, renderPc,
                formatter>>

----------------------------------------------------------------------------
(* Bounds *)

\* most bytes the child writes
MaxOut == 3
\* capacity of the pipe between the child and the drain thread
PipeCap == 2
\* most entries of a report
MaxEntries == 2
\* most diagnostics of a report, over all its entries
MaxDiags == 2
\* most entries of related information of a diagnostic
MaxRelated == 2

----------------------------------------------------------------------------
(* Severity model *)

Severity == {"Error", "Warning", "Information", "Hint"}

\* DiagnosticSeverity::ERROR .. HINT, ordered by their number
DiagnosticSeverities == 1..4

\* severity field of a Diagnostic: 0 models None
OptSeverities == 0..4

\* a mapping that confuses two levels
SeverityIntoSwapped(value) ==
    CASE value = "Error" -> 1
      [] value = "Warning" -> 3
      [] value = "Information" -> 2
      [] value = "Hint" -> 4

SeverityInto(value) ==
    CASE value = "Error" -> 1
      [] value = "Warning" -> 2
      [] value = "Information" -> 3
      [] value = "Hint" -> 4

\* no coercion: show stays as configured
CoerceShowNever(f, s) == s

\* coercion in the wrong direction
CoerceShowReversed(f, s) == IF f < s THEN f ELSE s

\* if fail > show { show = fail }
CoerceShow(f, s) == IF f > s THEN f ELSE s

\* a filter that also hides the diagnostics exactly at the show level
HiddenAtLevel(severity, s) == severity # 0 /\ severity >= s

\* diagnostic.severity.map(|severity| severity > show).unwrap_or(false)
Hidden(severity, s) == severity # 0 /\ severity > s

\* a threshold that misses the diagnostics exactly at the fail level
FailsStrict(severity, f) == severity # 0 /\ severity < f

\* diagnostic.severity.map(|severity| severity <= fail).unwrap_or(false)
Fails(severity, f) == severity # 0 /\ severity <= f

----------------------------------------------------------------------------
(* Text of the child's output *)

Bytes == {"p", "q", "SP", "LF", "XX"}

Last(s) == s[Len(s)]

\* String::from_utf8 succeeds
ValidUtf8(bytes) == \A i \in 1..Len(bytes) : bytes[i] # "XX"

IsAsciiWhitespace(c) == c \in {"SP", "LF"}

RECURSIVE LinesFrom(_, _)
LinesFrom(s, cur) ==
    IF s = <<>> THEN (IF cur = <<>> THEN <<>> ELSE <<cur>>)
    ELSE IF Head(s) = "LF" THEN <<cur>> \o LinesFrom(Tail(s), <<>>)
    ELSE LinesFrom(Tail(s), Append(cur, Head(s)))

RECURSIVE DropTrailingEmpty(_)
DropTrailingEmpty(ls) ==
    IF ls # <<>> /\ Last(ls) = <<>>
    THEN DropTrailingEmpty(SubSeq(ls, 1, Len(ls) - 1))
    ELSE ls

\* a line splitter that forgets the empty lines at the end of the text
LinesSkippingEmptyTail(s) == DropTrailingEmpty(LinesFrom(s, <<>>))

\* str::lines(): the text cut at every line feed; a line feed that ends the
\* text starts no further line
Lines(s) == LinesFrom(s, <<>>)

RECURSIVE TokensFrom(_, _)
TokensFrom(s, cur) ==
    IF s = <<>> THEN (IF cur = <<>> THEN <<>> ELSE <<cur>>)
    ELSE IF IsAsciiWhitespace(Head(s))
         THEN (IF cur = <<>> THEN <<>> ELSE <<cur>>) \o TokensFrom(Tail(s), <<>>)
         ELSE TokensFrom(Tail(s), Append(cur, Head(s)))

\* str::split_ascii_whitespace(): the maximal runs of non-whitespace
SplitAsciiWhitespace(s) == TokensFrom(s, <<>>)

\* the first token instead of the last
FirstToken(line) == Head(SplitAsciiWhitespace(line))

\* last_line.split_ascii_whitespace().last(), when there is one
LastToken(line) == Last(SplitAsciiWhitespace(line))

----------------------------------------------------------------------------
(* URIs and paths *)

\* the keys a report may hold, in ascending byte order of the strings
UriKeys == << "a.lua",
              "file:///other/b.lua",
              "file:///proj",
              "file:///proj/a.lua",
              "file://host/proj/a.lua",
              "http://host/proj/a.lua" >>

KeySet == {UriKeys[i] : i \in 1..Len(UriKeys)}

\* position of a key in the order of String's Ord
KeyRank(k) == CHOOSE i \in 1..Len(UriKeys) : UriKeys[i] = k

\* Url::parse: a string without a scheme is a relative URL without a base
UrlParse(k) ==
    CASE k = "a.lua" ->
            [ok |-> FALSE, scheme |-> "", host |-> "", segments |-> <<>>]
      [] k = "file:///other/b.lua" ->
            [ok |-> TRUE, scheme |-> "file", host |-> "", segments |-> <<"other", "b.lua">>]
      [] k = "file:///proj" ->
            [ok |-> TRUE, scheme |-> "file", host |-> "", segments |-> <<"proj">>]
      [] k = "file:///proj/a.lua" ->
            [ok |-> TRUE, scheme |-> "file", host |-> "", segments |-> <<"proj", "a.lua">>]
      [] k = "file://host/proj/a.lua" ->
            [ok |-> TRUE, scheme |-> "file", host |-> "host", segments |-> <<"proj", "a.lua">>]
      [] k = "http://host/proj/a.lua" ->
            [ok |-> TRUE, scheme |-> "http", host |-> "host", segments |-> <<"proj", "a.lua">>]

\* Url::to_file_path on Unix: only a URL without host (or with localhost)
\* has a file path; the path is the URL's segments
ToFilePath(url) ==
    IF url.host \in {"", "localhost"}
    THEN [ok |-> TRUE, path |-> url.segments]
    ELSE [ok |-> FALSE, path |-> <<>>]

\* the absolutized opts.project
project_absolute == <<"proj">>

\* a containment test that looks at the depth of the path only
StartsWithByDepth(p, base) == Len(base) <= Len(p)

\* Path::starts_with: base is a prefix of p, component by component
StartsWith(p, base) ==
    Len(base) <= Len(p) /\ SubSeq(p, 1, Len(base)) = base

RECURSIVE CommonPrefix(_, _)
CommonPrefix(p, b) ==
    IF p # <<>> /\ b # <<>> /\ Head(p) = Head(b)
    THEN 1 + CommonPrefix(Tail(p), Tail(b))
    ELSE 0

\* pathdiff::diff_paths for two absolute paths
DiffPaths(p, base) ==
    LET c == CommonPrefix(p, base)
    IN  [i \in 1..(Len(base) - c) |-> ".."] \o SubSeq(p, c + 1, Len(p))

\* to_relative_path(url, cwd)
ToRelativePath(url, cwd) ==
    IF url.scheme # "file"
    THEN [ok |-> FALSE, err |-> "UnsupportedUriScheme", path |-> <<>>]
    ELSE IF ~ToFilePath(url).ok
    THEN [ok |-> FALSE, err |-> "FilePathFailure", path |-> <<>>]
    ELSE [ok |-> TRUE, err |-> "", path |-> DiffPaths(ToFilePath(url).path, cwd)]

\* url.to_file_path().map(|p| p.starts_with(&project_absolute)).unwrap_or(true)
InProject(url) ==
    IF ToFilePath(url).ok
    THEN StartsWith(ToFilePath(url).path, project_absolute)
    ELSE TRUE

----------------------------------------------------------------------------
(* Reports *)

\* Vec<Diagnostic> of at most n diagnostics
DiagSeqs(n) == UNION {[1..m -> OptSeverities] : m \in 0..n}

\* BTreeMap<String, Vec<Diagnostic>> as the sequence of its entries in
\* iteration order, which is ascending key order: the maps whose keys are
\* UriKeys[i] or later, of at most e entries and d diagnostics in all
RECURSIVE BTreeMaps(_, _, _)
BTreeMaps(i, e, d) ==
    {<<>>} \cup
    (IF e = 0 THEN {}
     ELSE UNION { UNION { LET rests == BTreeMaps(k + 1, e - 1, d - n)
                          IN  { <<[uri |-> UriKeys[k], diags |-> ds]>> \o rest :
                                ds \in [1..n -> OptSeverities], rest \in rests } :
                          n \in 0..d } :
                  k \in i..Len(UriKeys) })

\* the reports of at most e entries and d diagnostics
Reports(e, d) == BTreeMaps(1, e, d)

\* the orders in which a report file may list n entries
FileOrders(n) == Permutations(1..n)

\* the entries of the report file that lists the entries of a report in the
\* order p
ReportFile(report, p) == [j \in 1..Len(report) |-> report[p[j]]]

\* BTreeMap::insert: the entry goes to the place of its key in the order of
\* the keys, replacing an entry of the same key
RECURSIVE Insert(_, _)
Insert(map, entry) ==
    IF Len(map) = 0
    THEN <<entry>>
    ELSE IF KeyRank(entry.uri) < KeyRank(Head(map).uri)
    THEN <<entry>> \o map
    ELSE IF entry.uri = Head(map).uri
    THEN <<entry>> \o Tail(map)
    ELSE <<Head(map)>> \o Insert(Tail(map), entry)

\* a deserialization into a map that iterates in the order of the file
FromStrFileOrder(file) == file

\* serde_json::from_str into the BTreeMap: the entries of the file are
\* inserted one after the other
RECURSIVE FromStr(_)
FromStr(file) ==
    IF Len(file) = 0
    THEN <<>>
    ELSE Insert(FromStr(SubSeq(file, 1, Len(file) - 1)), file[Len(file)])

----------------------------------------------------------------------------
(* State *)

NoOutcome == [kind |-> "none", info |-> 0]

Returned(kind, info) == [kind |-> kind, info |-> info]

\* the process is alive: main has not returned
Running == pc # "done"

\* buffer = vec![0; 1024]
BufferLen == 1024

Min(a, b) == IF a < b THEN a ELSE b

\* an exit test that takes every status for success
ExitSuccessAlways(status) == TRUE

\* ExitStatus::success
ExitSuccess(status) == status = 0

\* the exit statuses the child may report
ExitStatuses == {0, 1}

\* Position: line and character
Positions == {[line |-> 0, character |-> 0], [line |-> 0, character |-> 1]}

\* Range: one that is a single position, and one that is not
Ranges ==
    {[start |-> s, end |-> e] : s \in {[line |-> 0, character |-> 0]},
                                e \in Positions}

\* the empty message, and two messages
Messages == {"", "m", "n"}

\* the URLs of related locations: one of a file of the project, and one
\* that has no file path
LocationUris == {"file:///proj/a.lua", "file://host/proj/a.lua"}

\* Vec<DiagnosticRelatedInformation> of at most n entries (a diagnostic
\* without the field is written like one with an empty vector)
RelatedInformation(n) ==
    UNION { [1..m -> [location : [uri : LocationUris, range : Ranges],
                      message : Messages]] : m \in 0..n }

\* Diagnostic as far as its text goes, without code and severity, with at
\* most n entries of related information
Diagnostics(n) ==
    [range : Ranges, message : Messages,
     related_information : RelatedInformation(n)]

\* no diagnostic is being written
NoDiagnostic ==
    [range |-> [start |-> [line |-> 0, character |-> 0],
                end |-> [line |-> 0, character |-> 0]],
     message |-> "", related_information |-> <<>>]

NotRendering ==
    /\ remaining = <<>>
    /\ path_diagnostic = NoDiagnostic
    /\ informationIdx = 0
    /\ renderPc = "idle"
    /\ formatter = <<>>

Init ==
    /\ optsFail \in Severity
    /\ optsShow \in Severity
    /\ fail = 0
    /\ show = 0
    /\ pc = "start"
    /\ outcome = NoOutcome
    /\ childState = "none"
    /\ exitStatus = 0
    /\ written = <<>>
    /\ pipe = <<>>
    /\ drainPc = "idle"
    /\ buffer = <<>>
    /\ stdout_contents = <<>>
    /\ drainResult = "none"
    /\ echoed = <<>>
    /\ result = <<>>
    /\ stdout = <<>>
    /\ path = <<>>
    /\ fsChecked = FALSE
    /\ fsRead = FALSE
    /\ diagnostics = <<>>
    /\ entryIdx = 0
    /\ diagIdx = 0
    /\ relative_path = <<>>
    /\ found_diagnostics = 0
    /\ rendered = <<>>
    /\ counted = {}
    /\ NotRendering

----------------------------------------------------------------------------
(* Main thread: configuration and the child process *)

\* lines 99-104
Configure ==
    /\ pc = "start"
    /\ fail' = SeverityInto(optsFail)
    /\ show' = CoerceShow(SeverityInto(optsFail), SeverityInto(optsShow))
    /\ pc' = "spawn"
    /\ UNCHANGED <<optsFail, optsShow, outcome, orchVars, locateVars, filterVars>>
    /\ UNCHANGED renderVars

\* lines 106-148: the child is spawned with a piped stdout and the drain
\* thread is started, or spawning fails
Spawn ==
    /\ pc = "spawn"
    /\ \E ok \in BOOLEAN :
        IF ok
        THEN /\ childState' = "running"
             /\ drainPc' = "read"
             /\ pc' = "wait"
             /\ UNCHANGED outcome
        ELSE /\ outcome' = Returned("SpawnFailure", 0)
             /\ pc' = "done"
             /\ UNCHANGED <<childState, drainPc>>
    /\ UNCHANGED <<optVars, exitStatus, written, pipe, buffer, stdout_contents,
                   drainResult, echoed, locateVars, filterVars>>
    /\ UNCHANGED renderVars

\* the child writes one byte to its stdout; it blocks while the pipe is full
ChildWrite ==
    /\ Running
    /\ childState = "running"
    /\ Len(written) < MaxOut
    /\ Len(pipe) < PipeCap
    /\ \E b \in Bytes :
        /\ written' = Append(written, b)
        /\ pipe' = Append(pipe, b)
    /\ UNCHANGED <<optVars, pc, outcome, childState, exitStatus, drainPc, buffer,
                   stdout_contents, drainResult, echoed, locateVars, filterVars>>
    /\ UNCHANGED renderVars

\* the child exits; its end of the pipe is closed
ChildExit ==
    /\ Running
    /\ childState = "running"
    /\ \E status \in ExitStatuses :
        exitStatus' = status
    /\ childState' = "exited"
    /\ UNCHANGED <<optVars, pc, outcome, written, pipe, drainPc, buffer,
                   stdout_contents, drainResult, echoed, locateVars, filterVars>>
    /\ UNCHANGED renderVars

----------------------------------------------------------------------------
(* Drain thread, lines 127-148 *)

\* a read that takes the bytes off the pipe and captures only the first
DrainReadFirstByte ==
    /\ Running
    /\ drainPc = "read"
    /\ pipe # <<>>
    /\ LET n == Min(Len(pipe), BufferLen)
       IN  /\ buffer' = SubSeq(pipe, 1, n)
           /\ pipe' = SubSeq(pipe, n + 1, Len(pipe))
           /\ stdout_contents' = stdout_contents \o SubSeq(pipe, 1, 1)
    /\ drainPc' = "echo"
    /\ UNCHANGED <<optVars, pc, outcome, childState, exitStatus, written,
                   drainResult, echoed, locateVars, filterVars>>
    /\ UNCHANGED renderVars

\* read returns Ok(n), n > 0 (lines 131, 136-137): a read of a pipe takes
\* the bytes that are there, as many as the buffer holds
DrainRead ==
    /\ Running
    /\ drainPc = "read"
    /\ pipe # <<>>
    /\ LET n == Min(Len(pipe), BufferLen)
       IN  /\ buffer' = SubSeq(pipe, 1, n)
           /\ pipe' = SubSeq(pipe, n + 1, Len(pipe))
           /\ stdout_contents' = stdout_contents \o SubSeq(pipe, 1, n)
    /\ drainPc' = "echo"
    /\ UNCHANGED <<optVars, pc, outcome, childState, exitStatus, written,
                   drainResult, echoed, locateVars, filterVars>>
    /\ UNCHANGED renderVars

\* stdout().write_all(&buffer[..n]) (lines 138-140)
DrainEcho ==
    /\ Running
    /\ drainPc = "echo"
    /\ echoed' = echoed \o buffer
    /\ buffer' = <<>>
    /\ drainPc' = "read"
    /\ UNCHANGED <<optVars, pc, outcome, childState, exitStatus, written, pipe,
                   stdout_contents, drainResult, locateVars, filterVars>>
    /\ UNCHANGED renderVars

\* read returns Ok(0): the pipe is empty and its write end closed
\* (lines 132-135, 147)
DrainEof ==
    /\ Running
    /\ drainPc = "read"
    /\ pipe = <<>>
    /\ childState = "exited"
    /\ drainResult' = "Ok"
    /\ drainPc' = "done"
    /\ UNCHANGED <<optVars, pc, outcome, childState, exitStatus, written, pipe,
                   buffer, stdout_contents, echoed, locateVars, filterVars>>
    /\ UNCHANGED renderVars

\* read returns Err (lines 142-144)
DrainReadErr ==
    /\ Running
    /\ drainPc = "read"
    /\ drainResult' = "Err"
    /\ drainPc' = "done"
    /\ UNCHANGED <<optVars, pc, outcome, childState, exitStatus, written, pipe,
                   buffer, stdout_contents, echoed, locateVars, filterVars>>
    /\ UNCHANGED renderVars

----------------------------------------------------------------------------
(* Main thread: exit status, join, report path *)

\* lines 150-154: child.wait() returns once the child has exited
Wait ==
    /\ pc = "wait"
    /\ childState = "exited"
    /\ IF ExitSuccess(exitStatus)
       THEN /\ pc' = "join"
            /\ UNCHANGED outcome
       ELSE /\ outcome' = Returned("AnalyzerFailure", exitStatus)
            /\ pc' = "done"
    /\ UNCHANGED <<optVars, orchVars, locateVars, filterVars>>
    /\ UNCHANGED renderVars

\* a join that takes the captured bytes whatever the closure returned
JoinIgnoringResult ==
    /\ pc = "join"
    /\ drainPc = "done"
    /\ result' = stdout_contents
    /\ pc' = "decode"
    /\ UNCHANGED <<optVars, outcome, orchVars, stdout, path, fsChecked, fsRead,
                   filterVars>>
    /\ UNCHANGED renderVars

\* a main thread that takes the captured bytes without waiting for the drain
\* thread to finish
JoinEarly ==
    /\ pc = "join"
    /\ result' = stdout_contents
    /\ pc' = "decode"
    /\ UNCHANGED <<optVars, outcome, orchVars, stdout, path, fsChecked, fsRead,
                   filterVars>>
    /\ UNCHANGED renderVars

\* lines 156-161: join returns once the drain thread has finished; the
\* closure returns Ok or Err (nothing in it panics)
Join ==
    /\ pc = "join"
    /\ drainPc = "done"
    /\ IF drainResult = "Ok"
       THEN /\ result' = stdout_contents
            /\ pc' = "decode"
            /\ UNCHANGED outcome
       ELSE /\ outcome' = Returned("StreamFailure", 0)
            /\ pc' = "done"
            /\ UNCHANGED result
    /\ UNCHANGED <<optVars, orchVars, stdout, path, fsChecked, fsRead, filterVars>>
    /\ UNCHANGED renderVars

\* lines 163-168
Decode ==
    /\ pc = "decode"
    /\ IF ValidUtf8(result)
       THEN /\ stdout' = result
            /\ pc' = "locate"
            /\ UNCHANGED outcome
       ELSE /\ outcome' = Returned("InvalidUtf8", 0)
            /\ pc' = "done"
            /\ UNCHANGED stdout
    /\ UNCHANGED <<optVars, orchVars, result, path, fsChecked, fsRead, filterVars>>
    /\ UNCHANGED renderVars

\* lines 170-179
LocateReport ==
    /\ pc = "locate"
    /\ IF Lines(stdout) = <<>>
       THEN /\ outcome' = Returned("EmptyOutput", 0)
            /\ pc' = "done"
            /\ UNCHANGED path
       ELSE LET last_line == Last(Lines(stdout))
            IN  IF SplitAsciiWhitespace(last_line) = <<>>
                THEN /\ outcome' = Returned("NoPathToken", 0)
                     /\ pc' = "done"
                     /\ UNCHANGED path
                ELSE /\ path' = LastToken(last_line)
                     /\ pc' = "exists"
                     /\ UNCHANGED outcome
    /\ UNCHANGED <<optVars, orchVars, result, stdout, fsChecked, fsRead, filterVars>>
    /\ UNCHANGED renderVars

\* lines 181-185
CheckExists ==
    /\ pc = "exists"
    /\ fsChecked' = TRUE
    /\ \E exists \in BOOLEAN :
        IF exists
        THEN /\ pc' = "load"
             /\ UNCHANGED outcome
        ELSE /\ outcome' = Returned("ReportFileMissing", 0)
             /\ pc' = "done"
    /\ UNCHANGED <<optVars, orchVars, result, stdout, path, fsRead, filterVars>>
    /\ UNCHANGED renderVars

\* lines 187-195: the file is read and deserialized into the BTreeMap. A run
\* of the whole program loads a report of at most one diagnostic; the loops
\* over larger reports are explored from the state after loading (SpecFilter)
LoadReport ==
    /\ pc = "load"
    /\ fsRead' = TRUE
    /\ \/ /\ outcome' = Returned("ReadFailure", 0)
          /\ pc' = "done"
          /\ UNCHANGED <<diagnostics, entryIdx>>
       \/ /\ outcome' = Returned("MalformedReport", 0)
          /\ pc' = "done"
          /\ UNCHANGED <<diagnostics, entryIdx>>
       \/ /\ \E r \in Reports(1, 1) : \E p \in FileOrders(Len(r)) :
                diagnostics' = FromStr(ReportFile(r, p))
          /\ entryIdx' = 1
          /\ pc' = "filter"
          /\ UNCHANGED outcome
    /\ UNCHANGED <<optVars, orchVars, result, stdout, path, fsChecked, diagIdx,
                   relative_path, found_diagnostics, rendered, counted>>
    /\ UNCHANGED renderVars

----------------------------------------------------------------------------
(* Main thread: the loops over the report, lines 197-246 *)

\* lines 197-211: the head of the outer loop for the entry at entryIdx
BeginEntry ==
    /\ pc = "filter"
    /\ entryIdx <= Len(diagnostics)
    /\ LET url == UrlParse(diagnostics[entryIdx].uri)
           rel == ToRelativePath(url, project_absolute)
       IN  IF ~url.ok
           THEN /\ outcome' = Returned("UrlParseFailure", 0)
                /\ pc' = "done"
                /\ UNCHANGED <<entryIdx, diagIdx, relative_path>>
           ELSE IF ~rel.ok
           THEN /\ outcome' = Returned(rel.err, 0)
                /\ pc' = "done"
                /\ UNCHANGED <<entryIdx, diagIdx, relative_path>>
           ELSE IF ~InProject(url)
           THEN /\ relative_path' = rel.path
                /\ entryIdx' = entryIdx + 1
                /\ UNCHANGED <<pc, outcome, diagIdx>>
           ELSE /\ relative_path' = rel.path
                /\ diagIdx' = 1
                /\ pc' = "diag"
                /\ UNCHANGED <<outcome, entryIdx>>
    /\ UNCHANGED <<optVars, orchVars, locateVars, diagnostics, found_diagnostics,
                   rendered, counted>>
    /\ UNCHANGED renderVars

\* lines 213-235: the body of the inner loop for the diagnostic at diagIdx
ProcessDiagnostic ==
    /\ pc = "diag"
    /\ diagIdx <= Len(diagnostics[entryIdx].diags)
    /\ LET uri == diagnostics[entryIdx].uri
           severity == diagnostics[entryIdx].diags[diagIdx]
       IN  IF Hidden(severity, show)
           THEN UNCHANGED <<found_diagnostics, rendered, counted>>
           ELSE /\ IF Fails(severity, fail)
                   THEN /\ found_diagnostics' = found_diagnostics + 1
                        /\ counted' = counted \cup {<<uri, diagIdx>>}
                   ELSE UNCHANGED <<found_diagnostics, counted>>
                /\ rendered' = Append(rendered,
                        [uri |-> uri, index |-> diagIdx, path |-> relative_path,
                         severity |-> severity])
    /\ diagIdx' = diagIdx + 1
    /\ UNCHANGED <<optVars, pc, outcome, orchVars, locateVars, diagnostics,
                   entryIdx, relative_path>>
    /\ UNCHANGED renderVars

\* the inner loop is exhausted: the outer loop moves to the next entry
NextEntry ==
    /\ pc = "diag"
    /\ diagIdx > Len(diagnostics[entryIdx].diags)
    /\ entryIdx' = entryIdx + 1
    /\ diagIdx' = 0
    /\ pc' = "filter"
    /\ UNCHANGED <<optVars, outcome, orchVars, locateVars, diagnostics,
                   relative_path, found_diagnostics, rendered, counted>>
    /\ UNCHANGED renderVars

\* lines 238-246
Aggregate ==
    /\ pc = "filter"
    /\ entryIdx > Len(diagnostics)
    /\ IF found_diagnostics > 0
       THEN outcome' = Returned("AggregateFailure", found_diagnostics)
       ELSE outcome' = Returned("Success", 0)
    /\ pc' = "done"
    /\ UNCHANGED <<optVars, orchVars, locateVars, filterVars>>
    /\ UNCHANGED renderVars

----------------------------------------------------------------------------
(* The text of a diagnostic, lines 229-234 and 248-335 *)

\* Display of a u32
Digits == <<"0", "1", "2">>
ShowNumber(n) == Digits[n + 1]

\* a piece of written text: what it is, the related entry it is of (0: the
\* diagnostic itself), and its characters
Piece(kind, of, text) == [kind |-> kind, of |-> of, text |-> text]

LineBreak == Piece("LF", 0, <<>>)

\* write_position
WritePosition(position) ==
    <<ShowNumber(position.line), ":", ShowNumber(position.character)>>

\* write_range
WriteRange(range) ==
    IF range.start = range.end
    THEN WritePosition(range.start)
    ELSE WritePosition(range.start) \o <<"-">> \o WritePosition(range.end)

\* PathDiagnostic::write_location: it ends the line with nothing
WriteLocation(location) ==
    LET rel == ToRelativePath(UrlParse(location.uri), project_absolute)
    IN  (IF rel.ok THEN rel.path ELSE <<location.uri>>)
            \o <<":">> \o WriteRange(location.range)

\* a test for redundancy that does not look at the range
RedundantByMessage(information, diagnostic) ==
    information.message = "" \/ information.message = diagnostic.message

\* lines 299-302: the related information repeats the diagnostic
Redundant(information, diagnostic) ==
    /\ information.location.range = diagnostic.range
    /\ (information.message = "" \/ information.message = diagnostic.message)

\* lines 229-234 and 271-296: the next diagnostic is written: a line break,
\* the path and the range, the end of that line (the diagnostic has no
\* code), and the message as a line
WriteDiagnostic ==
    /\ renderPc = "next"
    /\ remaining # <<>>
    /\ LET diagnostic == Head(remaining)
       IN  /\ path_diagnostic' = diagnostic
           /\ formatter' = formatter \o
                  << LineBreak,
                     Piece("header", 0,
                           relative_path \o <<":">> \o WriteRange(diagnostic.range)),
                     LineBreak,
                     Piece("message", 0, <<": ", diagnostic.message>>),
                     LineBreak >>
    /\ remaining' = Tail(remaining)
    /\ informationIdx' = 1
    /\ renderPc' = "related"
    /\ UNCHANGED <<optVars, pc, outcome, orchVars, locateVars, filterVars>>

\* lines 298-311: one turn of the loop over related_information
WriteRelated ==
    /\ renderPc = "related"
    /\ informationIdx <= Len(path_diagnostic.related_information)
    /\ LET information == path_diagnostic.related_information[informationIdx]
       IN  IF Redundant(information, path_diagnostic)
           THEN UNCHANGED formatter
           ELSE formatter' = formatter \o
                    << Piece("bullet", informationIdx, <<"    ", "bullet", " ">>),
                       Piece("location", informationIdx,
                             WriteLocation(information.location)) >> \o
                    (IF information.message # ""
                     THEN << Piece("text", informationIdx,
                                   <<": ", information.message>>),
                             LineBreak >>
                     ELSE <<>>)
    /\ informationIdx' = informationIdx + 1
    /\ UNCHANGED <<optVars, pc, outcome, orchVars, locateVars, filterVars,
                   remaining, path_diagnostic, renderPc>>

\* line 319: the loop is exhausted and fmt returns Ok
EndDiagnostic ==
    /\ renderPc = "related"
    /\ informationIdx > Len(path_diagnostic.related_information)
    /\ renderPc' = "next"
    /\ UNCHANGED <<optVars, pc, outcome, orchVars, locateVars, filterVars,
                   remaining, path_diagnostic, informationIdx, formatter>>

----------------------------------------------------------------------------
(* Specifications *)

Next ==
    \/ Configure
    \/ Spawn
    \/ ChildWrite
    \/ ChildExit
    \/ DrainRead
    \/ DrainEcho
    \/ DrainEof
    \/ DrainReadErr
    \/ Wait
    \/ Join
    \/ Decode
    \/ LocateReport
    \/ CheckExists
    \/ LoadReport
    \/ BeginEntry
    \/ ProcessDiagnostic
    \/ NextEntry
    \/ Aggregate

\* a run of the whole program
Spec == Init /\ [][Next]_vars

\* the schedulers are fair to the child process, to the drain thread and to
\* the main thread: each takes a step when it can. A read error is a step
\* the drain thread may take, not one it is bound to take
Fairness ==
    /\ WF_vars(ChildWrite \/ ChildExit)
    /\ WF_vars(DrainRead \/ DrainEcho \/ DrainEof)
    /\ WF_vars(Configure \/ Spawn \/ Wait \/ Join \/ Decode \/ LocateReport
                 \/ CheckExists \/ LoadReport \/ BeginEntry \/ ProcessDiagnostic
                 \/ NextEntry \/ Aggregate)

\* a run of the whole program under fair scheduling
SpecFair == Spec /\ Fairness

\* the state at line 197 of a run whose child wrote "p" and exited with 0,
\* for every configuration and every report file of at most MaxEntries
\* entries and MaxDiags diagnostics, its entries in any order
InitFilter ==
    /\ \E r \in Reports(MaxEntries, MaxDiags) : \E p \in FileOrders(Len(r)) :
           diagnostics = FromStr(ReportFile(r, p))
    /\ optsFail \in Severity
    /\ optsShow \in Severity
    /\ fail = SeverityInto(optsFail)
    /\ show = CoerceShow(SeverityInto(optsFail), SeverityInto(optsShow))
    /\ pc = "filter"
    /\ outcome = NoOutcome
    /\ childState = "exited"
    /\ exitStatus = 0
    /\ written = <<"p">>
    /\ pipe = <<>>
    /\ drainPc = "done"
    /\ buffer = <<>>
    /\ stdout_contents = <<"p">>
    /\ drainResult = "Ok"
    /\ echoed = <<"p">>
    /\ result = <<"p">>
    /\ stdout = <<"p">>
    /\ path = <<"p">>
    /\ fsChecked = TRUE
    /\ fsRead = TRUE
    /\ entryIdx = 1
    /\ diagIdx = 0
    /\ relative_path = <<>>
    /\ found_diagnostics = 0
    /\ rendered = <<>>
    /\ counted = {}
    /\ NotRendering

NextFilter ==
    \/ BeginEntry
    \/ ProcessDiagnostic
    \/ NextEntry
    \/ Aggregate

\* the loops over a loaded report
SpecFilter == InitFilter /\ [][NextFilter]_vars

\* the state at line 229 of a run that writes the diagnostics of the entry
\* a.lua of the project: one diagnostic of at most MaxRelated entries of
\* related information, alone or followed by one without any
InitRender ==
    /\ \E first \in Diagnostics(MaxRelated) :
           \/ remaining = <<first>>
           \/ \E second \in Diagnostics(0) : remaining = <<first, second>>
    /\ path_diagnostic = NoDiagnostic
    /\ informationIdx = 0
    /\ renderPc = "next"
    /\ formatter = <<>>
    /\ optsFail = "Hint"
    /\ optsShow = "Hint"
    /\ fail = SeverityInto(optsFail)
    /\ show = CoerceShow(SeverityInto(optsFail), SeverityInto(optsShow))
    /\ pc = "diag"
    /\ outcome = NoOutcome
    /\ childState = "exited"
    /\ exitStatus = 0
    /\ written = <<"p">>
    /\ pipe = <<>>
    /\ drainPc = "done"
    /\ buffer = <<>>
    /\ stdout_contents = <<"p">>
    /\ drainResult = "Ok"
    /\ echoed = <<"p">>
    /\ result = <<"p">>
    /\ stdout = <<"p">>
    /\ path = <<"p">>
    /\ fsChecked = TRUE
    /\ fsRead = TRUE
    /\ diagnostics = <<>>
    /\ entryIdx = 1
    /\ diagIdx = 1
    /\ relative_path = <<"a.lua">>
    /\ found_diagnostics = 0
    /\ rendered = <<>>
    /\ counted = {}

NextRender ==
    \/ WriteDiagnostic
    \/ WriteRelated
    \/ EndDiagnostic

\* the writes of the text of diagnostics
SpecRender == InitRender /\ [][NextRender]_vars

----------------------------------------------------------------------------
(* Vocabulary of the properties *)

\* strength of a configured level: Error is 1, the strongest; Hint is 4
SeverityOrder == <<"Error", "Warning", "Information", "Hint">>
Strength(level) == CHOOSE n \in 1..Len(SeverityOrder) : SeverityOrder[n] = level

Configured == pc # "start"

KeyOf(e) == diagnostics[e].uri
SeverityOf(e, i) == diagnostics[e].diags[i]
EntryIndices == 1..Len(diagnostics)
DiagIndices(e) == 1..Len(diagnostics[e].diags)

\* the key is a URL of scheme file
IsFileUrl(k) == UrlParse(k).ok /\ UrlParse(k).scheme = "file"

\* p is the project root or below it
UnderRoot(p) ==
    \A j \in 1..Len(project_absolute) :
        j <= Len(p) /\ p[j] = project_absolute[j]

\* the keys that are not a URL, or a URL of another scheme than file
BadKeys == {k \in KeySet : ~IsFileUrl(k)}

\* the keys that are a file URL without a filesystem path
UnconvertibleKeys == {k \in KeySet : IsFileUrl(k) /\ ~ToFilePath(UrlParse(k)).ok}

\* the keys that are a file URL with a path in the project
InsideKeys ==
    {k \in KeySet : /\ IsFileUrl(k)
                    /\ ToFilePath(UrlParse(k)).ok
                    /\ UnderRoot(ToFilePath(UrlParse(k)).path)}

\* the keys that are a file URL with a path outside the project
OutsideKeys ==
    {k \in KeySet : /\ IsFileUrl(k)
                    /\ ToFilePath(UrlParse(k)).ok
                    /\ ~UnderRoot(ToFilePath(UrlParse(k)).path)}

BadKey(k) == k \in BadKeys
Unconvertible(k) == k \in UnconvertibleKeys
InsideKey(k) == k \in InsideKeys
OutsideKey(k) == k \in OutsideKeys

IsRendered(e, i) ==
    \E j \in 1..Len(rendered) : rendered[j].uri = KeyOf(e) /\ rendered[j].index = i

IsCounted(e, i) == <<KeyOf(e), i>> \in counted

\* the loops have gone through diagnostic i of entry e
Processed(e, i) ==
    \/ e < entryIdx
    \/ e = entryIdx /\ pc = "diag" /\ i < diagIdx

\* the outer loop has reached entry e
Reached(e) == e < entryIdx \/ (e = entryIdx /\ pc \in {"diag", "done"})

\* severity present and at or stronger than the level
AtOrStronger(severity, level) == severity \in 1..level

\* the diagnostics of in-project entries that meet the fail threshold
Qualifying ==
    UNION { { <<e, i>> : i \in {i \in DiagIndices(e) :
                                  AtOrStronger(SeverityOf(e, i), Strength(optsFail))} } :
            e \in {e \in EntryIndices : InsideKey(KeyOf(e))} }

\* every entry of a loaded report has been gone through
AllEntriesProcessed == pc = "done" /\ entryIdx >= 1 /\ entryIdx > Len(diagnostics)

----------------------------------------------------------------------------
(* Properties of the loops over the report (SpecFilter) *)

\* C1: when every entry of the report has been processed, the run ends in
\* AggregateFailure carrying n if n > 0 and in Success if n = 0, where n is
\* the number of diagnostics of in-project entries whose severity is present
\* and at or stronger than the configured fail level.
C1_AggregateIffQualifying ==
    AllEntriesProcessed =>
        LET n == Cardinality(Qualifying)
        IN  /\ n > 0 => outcome = Returned("AggregateFailure", n)
            /\ n = 0 => outcome = Returned("Success", 0)

\* a run that counted two diagnostics, hid a third kind of entry or
\* diagnostic, and ended in AggregateFailure(2)
C1_Witness ==
    /\ AllEntriesProcessed
    /\ outcome = Returned("AggregateFailure", 2)
    /\ Len(diagnostics) = 2

\* C2: a diagnostic of a kept entry that the loops have gone through is
\* rendered iff its severity is absent or at or stronger than show, and it
\* incremented the counter iff it is rendered and its severity is present
\* and at or stronger than fail; the counter is the number of the latter.
C2_RenderedAndCounted ==
    /\ found_diagnostics = Cardinality(counted)
    /\ \A e \in EntryIndices : \A i \in DiagIndices(e) :
        (InsideKey(KeyOf(e)) /\ Processed(e, i)) =>
            LET severity == SeverityOf(e, i)
            IN  /\ IsRendered(e, i) <=> (severity = 0 \/ severity <= show)
                /\ IsCounted(e, i) <=>
                       (IsRendered(e, i) /\ severity # 0 /\ severity <= fail)

\* with fail = error, a Warning was rendered and not counted, and a
\* diagnostic without severity was rendered and not counted
C2_Witness ==
    /\ fail = 1
    /\ \E e \in EntryIndices : \E i, j \in DiagIndices(e) :
        /\ Processed(e, i) /\ Processed(e, j)
        /\ SeverityOf(e, i) = 2 /\ IsRendered(e, i) /\ ~IsCounted(e, i)
        /\ SeverityOf(e, j) = 0 /\ IsRendered(e, j) /\ ~IsCounted(e, j)

\* C5: no diagnostic of an entry whose path is outside the project is ever
\* rendered or counted (the counter is the number of counted diagnostics,
\* none of which is of that entry), and the loop passes such an entry: it
\* neither enters its diagnostics nor ends the run at it.
C5_OutsideSkipped ==
    \A e \in EntryIndices :
        OutsideKey(KeyOf(e)) =>
            /\ \A j \in 1..Len(rendered) : rendered[j].uri # KeyOf(e)
            /\ \A c \in counted : c[1] # KeyOf(e)
            /\ found_diagnostics = Cardinality(counted)
            /\ ~(pc \in {"diag", "done"} /\ entryIdx = e)

\* a run that passed an out-of-project entry holding an Error, with the
\* weakest thresholds, and ended in success
C5_Witness ==
    /\ AllEntriesProcessed
    /\ outcome.kind = "Success"
    /\ fail = 4
    /\ \E e \in EntryIndices :
        OutsideKey(KeyOf(e)) /\ Len(diagnostics[e].diags) = 2 /\ SeverityOf(e, 1) = 1

\* C6: an entry whose file URL has no filesystem path is treated as
\* in-project: the run does not end at it, and its diagnostics are rendered
\* and counted by the thresholds.
C6_UnconvertibleKept ==
    \A e \in EntryIndices :
        (Unconvertible(KeyOf(e)) /\ Reached(e)) =>
            /\ ~(pc = "done" /\ entryIdx = e)
            /\ \A i \in DiagIndices(e) :
                Processed(e, i) =>
                    LET severity == SeverityOf(e, i)
                    IN  /\ IsRendered(e, i) <=> (severity = 0 \/ severity <= show)
                        /\ IsCounted(e, i) <=> (severity # 0 /\ severity <= fail)

\* first entry of the report whose key is bad
FirstBad == CHOOSE e \in EntryIndices :
                BadKey(KeyOf(e)) /\ \A d \in 1..(e - 1) : ~BadKey(KeyOf(d))

HasBadKey == \E e \in EntryIndices : BadKey(KeyOf(e))

\* C7: if a key of the report is not a URL or has another scheme than file,
\* the run ends in UrlParseFailure or UnsupportedUriScheme, and no
\* diagnostic of that entry or of a later one is rendered or counted.
C7_BadKeyAborts ==
    HasBadKey =>
        /\ pc = "done" => outcome.kind \in {"UrlParseFailure", "UnsupportedUriScheme"}
        /\ entryIdx <= FirstBad
        /\ \A e \in FirstBad..Len(diagnostics) : \A i \in DiagIndices(e) :
               ~IsRendered(e, i) /\ ~IsCounted(e, i)

\* what the loops do keep of C7: the run ends in a failure of an entry at
\* or before the bad one
C7_BadKeyNeverPassed ==
    HasBadKey =>
        /\ pc = "done" => outcome.kind \in {"UrlParseFailure", "UnsupportedUriScheme",
                                            "FilePathFailure"}
        /\ (pc = "done" /\ outcome.kind = "FilePathFailure") =>
               \E e \in 1..FirstBad : Unconvertible(KeyOf(e)) /\ entryIdx = e
        /\ entryIdx <= FirstBad
        /\ \A e \in FirstBad..Len(diagnostics) : \A i \in DiagIndices(e) :
               ~IsRendered(e, i) /\ ~IsCounted(e, i)

\* the diagnostics of in-project entries that the show threshold lets
\* through: severity absent, or at or stronger than the weaker of the
\* configured fail and show
Visible ==
    UNION { { <<KeyOf(e), i>> : i \in {i \in DiagIndices(e) :
                \/ SeverityOf(e, i) = 0
                \/ AtOrStronger(SeverityOf(e, i), Strength(optsFail))
                \/ AtOrStronger(SeverityOf(e, i), Strength(optsShow))} } :
            e \in {e \in EntryIndices : InsideKey(KeyOf(e))} }

\* C12: each rendered diagnostic comes after the one rendered before it in
\* the ascending order of the entries' keys and, within an entry, in the
\* order of its sequence (so the whole sequence is ascending), whatever the
\* order of the entries in the report file; so at aggregation the rendered
\* sequence and the failure count are determined by the set of entries of
\* the file, the project root and the thresholds.
C12_RenderedInKeyOrder ==
    /\ \A k \in 2..Len(rendered) :
           \/ KeyRank(rendered[k - 1].uri) < KeyRank(rendered[k].uri)
           \/ /\ rendered[k - 1].uri = rendered[k].uri
              /\ rendered[k - 1].index < rendered[k].index
    /\ AllEntriesProcessed =>
           /\ {<<rendered[j].uri, rendered[j].index>> : j \in 1..Len(rendered)}
                  = Visible
           /\ found_diagnostics = Cardinality(Qualifying)

\* a diagnostic of file:///proj was rendered before one of
\* file:///proj/a.lua, and the run reached aggregation
C12_Witness ==
    /\ AllEntriesProcessed
    /\ Len(rendered) = 2
    /\ rendered[1].uri = "file:///proj"
    /\ rendered[2].uri = "file:///proj/a.lua"

\* C20: the show threshold hides no failing diagnostic: whatever fail and
\* show are configured, a diagnostic of an in-project entry whose severity
\* is present and at or stronger than the configured fail is rendered and
\* counted once the loops have gone through it, and at aggregation the
\* counter is the number of such diagnostics, which the configured show
\* does not enter.
C20_ShowNeverHidesFailing ==
    /\ LET level == Strength(optsFail)
       IN  \A e \in EntryIndices :
               InsideKey(KeyOf(e)) =>
                   \A i \in DiagIndices(e) :
                       (Processed(e, i) /\ AtOrStronger(SeverityOf(e, i), level)) =>
                           IsRendered(e, i) /\ IsCounted(e, i)
    /\ AllEntriesProcessed => found_diagnostics = Cardinality(Qualifying)

\* with fail = hint and show = error configured, a Hint and a Warning were
\* rendered and counted
C20_Witness ==
    /\ AllEntriesProcessed
    /\ optsFail = "Hint"
    /\ optsShow = "Error"
    /\ outcome = Returned("AggregateFailure", 2)
    /\ \E e \in EntryIndices :
           /\ Len(diagnostics[e].diags) = 2
           /\ SeverityOf(e, 1) = 4 /\ IsRendered(e, 1) /\ IsCounted(e, 1)
           /\ SeverityOf(e, 2) = 2 /\ IsRendered(e, 2) /\ IsCounted(e, 2)

----------------------------------------------------------------------------
(* Properties of a run of the whole program (Spec) *)

\* C3, as stated: if fail is configured stronger than show (fail before show
\* in Error < Warning < Information < Hint), the effective show equals fail.
C3_StrongerFailCoerces ==
    (Configured /\ Strength(optsFail) < Strength(optsShow)) => show = fail

\* C3, amended: if fail is configured weaker than show (fail after show in
\* Error < Warning < Information < Hint), the effective show equals fail.
C3_WeakerFailCoerces ==
    (Configured /\ Strength(optsFail) > Strength(optsShow)) =>
        show = fail /\ show = Strength(optsFail)

\* fail = hint and show = error were configured, and show is now hint
C3_Witness ==
    Configured /\ optsFail = "Hint" /\ optsShow = "Error" /\ show = 4

\* C4: after the coercion the effective fail is the configured fail, fail is
\* at least as strong as show, and show differs from the configured show
\* only if the configured fail was weaker than it, and then show is fail.
C4_ThresholdInvariant ==
    Configured =>
        /\ fail = Strength(optsFail)
        /\ fail <= show
        /\ show # Strength(optsShow) =>
               (Strength(optsFail) > Strength(optsShow) /\ show = fail)

\* a configuration whose show was coerced, and one step later
C4_Witness ==
    /\ pc = "wait"
    /\ optsFail = "Information"
    /\ optsShow = "Warning"
    /\ show = 3

\* main returned before line 170, or has not reached it
BeforeLocate ==
    \/ pc \in {"start", "spawn", "wait", "join", "decode", "locate"}
    \/ pc = "done" /\ outcome.kind \in {"SpawnFailure", "AnalyzerFailure",
                                        "StreamFailure", "InvalidUtf8"}

\* lines 170-179 have run on the decoded text
Located == ~BeforeLocate

\* C8: once the child has exited with a non-zero status, the run can only
\* end in AnalyzerFailure carrying that status; no report path is extracted,
\* the filesystem is not touched and nothing is rendered.
C8_AnalyzerFailure ==
    (childState = "exited" /\ exitStatus # 0) =>
        /\ pc \in {"wait", "done"}
        /\ pc = "done" => outcome = Returned("AnalyzerFailure", exitStatus)
        /\ path = <<>>
        /\ ~fsChecked
        /\ ~fsRead
        /\ rendered = <<>>
        /\ diagnostics = <<>>

\* the child wrote a path and a line feed, exited with 1, the drain thread
\* captured it all, and the run ended in AnalyzerFailure(1)
C8_Witness ==
    /\ pc = "done"
    /\ outcome = Returned("AnalyzerFailure", 1)
    /\ stdout_contents = <<"p", "LF">>
    /\ drainPc = "done"

\* i starts a line of the text
LineStart(text, i) == i \in 1..Len(text) /\ (i = 1 \/ text[i - 1] = "LF")

\* the line that starts at i, without its line feed
LineAt(text, i) ==
    LET ends == {j \in (i - 1)..Len(text) : \A m \in i..j : text[m] # "LF"}
        j == CHOOSE x \in ends : \A y \in ends : y <= x
    IN  SubSeq(text, i, j)

LineStarts(text) == {i \in 1..Len(text) : LineStart(text, i)}

NonEmptyLineStarts(text) == {i \in LineStarts(text) : LineAt(text, i) # <<>>}

Greatest(S) == CHOOSE x \in S : \A y \in S : y <= x

HasToken(line) == \E m \in 1..Len(line) : ~IsAsciiWhitespace(line[m])

\* the last maximal run of non-whitespace of a line that has one
FinalToken(line) ==
    LET e == Greatest({m \in 1..Len(line) : ~IsAsciiWhitespace(line[m])})
        starts == {b \in 1..e : \A m \in b..e : ~IsAsciiWhitespace(line[m])}
        b == CHOOSE x \in starts : \A y \in starts : x <= y
    IN  SubSeq(line, b, e)

\* C9, as stated: the report path is the last token of the last non-empty
\* line of the captured text, whatever empty lines follow that line.
C9_LastNonEmptyLine ==
    (Located /\ NonEmptyLineStarts(stdout) # {}) =>
        LET line == LineAt(stdout, Greatest(NonEmptyLineStarts(stdout)))
        IN  HasToken(line) => path = FinalToken(line)

\* C9, amended: the report path is the last token of the last line of the
\* captured text, where a line feed that ends the text starts no further
\* line; if that line is empty or blank, no path is extracted.
C9_LastLine ==
    (Located /\ stdout # <<>>) =>
        LET line == LineAt(stdout, Greatest(LineStarts(stdout)))
        IN  /\ HasToken(line) => path = FinalToken(line)
            /\ ~HasToken(line) => path = <<>>

\* the text is one line of two tokens, and the path is the second
C9_Witness ==
    /\ pc = "exists"
    /\ stdout = <<"q", "SP", "p">>
    /\ path = <<"p">>

\* C10: captured text without lines ends the run in EmptyOutput, captured
\* text whose last line has no token ends it in NoPathToken, in both cases
\* without an existence check or a read; and the existence check, hence
\* ReportFileMissing, comes only after a token was extracted.
C10_LocateFailures ==
    /\ Located =>
        /\ stdout = <<>> <=> outcome.kind = "EmptyOutput"
        /\ (stdout # <<>> /\ ~HasToken(LineAt(stdout, Greatest(LineStarts(stdout)))))
               <=> outcome.kind = "NoPathToken"
    /\ outcome.kind \in {"EmptyOutput", "NoPathToken"} =>
           pc = "done" /\ ~fsChecked /\ ~fsRead /\ path = <<>>
    /\ fsChecked => path # <<>>
    /\ fsRead => fsChecked
    /\ outcome.kind = "ReportFileMissing" => (path # <<>> /\ fsChecked /\ ~fsRead)

\* the last line of the text is an empty line after a line with a token,
\* and the run ended in NoPathToken
C10_Witness ==
    /\ outcome.kind = "NoPathToken"
    /\ stdout = <<"p", "LF", "LF">>
    /\ ~fsChecked

----------------------------------------------------------------------------
(* Properties of the threads and the pipe (Spec) *)

\* C11: every byte echoed from the child is written to stdout before the
\* first byte of a rendered diagnostic: a step that writes a diagnostic, or
\* that follows one, is taken with the drain thread finished and nothing
\* left to echo, and it echoes nothing.
C11_EchoBeforeRendered ==
    [][rendered' # <<>> =>
          /\ drainPc = "done"
          /\ buffer = <<>>
          /\ echoed' = echoed]_vars

\* a diagnostic was rendered after two bytes of the child were echoed
C11_Witness ==
    /\ rendered # <<>>
    /\ echoed = <<"LF", "p">>
    /\ written = echoed

\* main has observed the child's exit status: child.wait() has returned
ExitObserved ==
    \/ pc \in {"join", "decode", "locate", "exists", "load", "filter", "diag"}
    \/ pc = "done" /\ outcome.kind # "SpawnFailure"

\* join_handle.join() has returned
Joined ==
    \/ pc \in {"decode", "locate", "exists", "load", "filter", "diag"}
    \/ pc = "done" /\ outcome.kind \notin {"SpawnFailure", "AnalyzerFailure"}

\* a step of locating the report path, loading the report or rendering has
\* started
Downstream == pc = "locate" \/ Located

\* a is a prefix of b
IsPrefix(a, b) == Len(a) <= Len(b) /\ SubSeq(b, 1, Len(a)) = a

\* C16: the drain thread is joined only after the wait for the child's exit
\* has returned (the child has exited, and with success), and locating the
\* report path, loading the report and rendering start only after the join
\* has returned the drain thread's result as a success, which hands its
\* captured bytes to main.
C16_JoinAfterWaitBeforeReport ==
    /\ (pc = "join" \/ Joined) =>
           (ExitObserved /\ childState = "exited" /\ exitStatus = 0)
    /\ Joined => drainPc = "done"
    /\ Downstream =>
           /\ Joined
           /\ drainResult = "Ok"
           /\ result = stdout_contents
    /\ (path # <<>> \/ fsChecked \/ fsRead \/ diagnostics # <<>> \/ rendered # <<>>)
           => Downstream

\* a diagnostic was rendered from a report whose path is the second line of
\* the bytes that the join handed over
C16_Witness ==
    /\ rendered # <<>>
    /\ drainResult = "Ok"
    /\ result = <<"q", "LF", "p">>
    /\ path = <<"p">>

\* C18: the echoed bytes are a prefix of the captured bytes and the captured
\* bytes a prefix of the written bytes; each written byte is either still in
\* the pipe or captured once, in order, and each captured byte is either
\* echoed or in the buffer about to be echoed; after a join that returned
\* success, the bytes handed to main are the echoed bytes and the child's
\* whole output.
C18_EchoedCapturedWritten ==
    /\ IsPrefix(echoed, stdout_contents)
    /\ IsPrefix(stdout_contents, written)
    /\ stdout_contents \o pipe = written
    /\ echoed \o buffer = stdout_contents
    /\ (Joined /\ drainResult = "Ok") =>
           /\ result = stdout_contents
           /\ result = echoed
           /\ result = written

\* the child has written three bytes through a pipe of two: one is echoed,
\* one is captured and about to be echoed, one is still in the pipe
C18_Witness ==
    /\ Len(written) = 3
    /\ Len(echoed) = 1
    /\ Len(stdout_contents) = 2
    /\ Len(pipe) = 1

\* C17: whenever main has observed the child's exit status, zero or not, it
\* joins the drain thread, and a read error in the drain thread ends the run
\* in StreamFailure and in no other outcome.
C17_DrainFailureSurfaces ==
    /\ (pc = "done" /\ ExitObserved) => drainPc = "done"
    /\ (pc = "done" /\ drainResult = "Err") => outcome.kind = "StreamFailure"

\* C19: when the run has ended, AnalyzerFailure included, every byte the
\* child wrote has been echoed: nothing is left in the pipe or in the
\* buffer of the drain thread (runs whose read failed aside).
C19_AllEchoedAtEnd ==
    (pc = "done" /\ drainResult # "Err") =>
        /\ echoed = written
        /\ pipe = <<>>
        /\ buffer = <<>>

----------------------------------------------------------------------------
(* Progress of the threads (SpecFair) *)

\* the child cannot write because the pipe is full, main waits for its exit,
\* and the drain thread has no step that takes bytes off the pipe
PipeDeadlock ==
    /\ childState = "running"
    /\ Len(pipe) = PipeCap
    /\ pc = "wait"
    /\ drainPc \notin {"read", "echo"}

\* C15: with a pipe of capacity PipeCap and a child that writes up to MaxOut
\* bytes and exits, under fair scheduling and without a read error, every
\* run that waits for the child comes to observe the child's exit status
\* and the end of stream in the drain thread, and no state has the child
\* blocked on a full pipe while main waits and nothing reads the pipe.
C15_ExitAndEndOfStream ==
    [](drainResult # "Err") =>
        /\ [](~PipeDeadlock)
        /\ (pc = "wait") ~> (ExitObserved /\ drainPc = "done")

\* what the threads do keep of C15: no state is a pipe deadlock, the wait
\* for the child returns, and a join that is reached returns
C15_WaitAndJoinReturn ==
    [](drainResult # "Err") =>
        /\ [](~PipeDeadlock)
        /\ (pc = "wait") ~> ExitObserved
        /\ (pc = "join") ~> (Joined /\ drainPc = "done")

----------------------------------------------------------------------------
(* Properties of the text of a diagnostic (SpecRender) *)

\* the places of the written text
Places == 1..Len(formatter)

\* the place of the header of the diagnostic being written
CurrentHeader ==
    CHOOSE i \in Places :
        /\ formatter[i].kind = "header"
        /\ \A k \in (i + 1)..Len(formatter) : formatter[k].kind # "header"

\* the places where the text of an entry of the related information of the
\* diagnostic being written starts
Bullets ==
    LET header == CurrentHeader
    IN  {i \in (header + 1)..Len(formatter) : formatter[i].kind = "bullet"}

\* the places where the text of entry j starts
BulletsOf(j) == {i \in Bullets : formatter[i].of = j}

\* a diagnostic is being written, or the last one has been
Writing == renderPc = "related" \/ (renderPc = "next" /\ formatter # <<>>)

\* C13: of the related information of a diagnostic being written, an entry
\* that the loop has gone through is left out iff the range of its location
\* is the range of the diagnostic and its message is empty or the message
\* of the diagnostic; every other entry is written, once, with its location
\* after its bullet, and the entries written are in the order of the
\* sequence.
C13_RedundantOmitted ==
    Writing =>
        LET related == path_diagnostic.related_information
            bullets == Bullets
        IN  /\ \A j \in 1..Len(related) :
                   LET omitted ==
                           /\ related[j].location.range = path_diagnostic.range
                           /\ \/ related[j].message = ""
                              \/ related[j].message = path_diagnostic.message
                       ofJ == {i \in bullets : formatter[i].of = j}
                   IN  IF j < informationIdx /\ ~omitted
                       THEN /\ Cardinality(ofJ) = 1
                            /\ \A i \in ofJ :
                                   /\ formatter[i + 1].kind = "location"
                                   /\ formatter[i + 1].of = j
                       ELSE ofJ = {}
            /\ \A i, k \in bullets :
                   i < k => formatter[i].of < formatter[k].of

\* a diagnostic was written with two entries that have its range: the
\* first, with another message, was written, and the second, with its
\* message, was left out
C13_Witness ==
    /\ renderPc = "next"
    /\ Len(path_diagnostic.related_information) = 2
    /\ path_diagnostic.message = "m"
    /\ \A j \in 1..2 :
           path_diagnostic.related_information[j].location.range
               = path_diagnostic.range
    /\ path_diagnostic.related_information[1].message = "n"
    /\ path_diagnostic.related_information[2].message = "m"
    /\ BulletsOf(1) # {}
    /\ BulletsOf(2) = {}

\* C14: every entry of related information that is written is a line of
\* its own, ended by a line break, also when its message is empty: the
\* text of an entry starts a line, so does the text of the next
\* diagnostic, and the text written for a diagnostic ends with a line
\* break.
C14_RelatedOwnLine ==
    /\ \A i \in Places :
           formatter[i].kind \in {"bullet", "header"} =>
               (i > 1 /\ formatter[i - 1].kind = "LF")
    /\ (renderPc = "next" /\ formatter # <<>>) =>
           formatter[Len(formatter)].kind = "LF"

====
